---------------------------- MODULE Spec2Model ----------------------------
(***************************************************************************)
(* A model of gidari's transport package (internal/transport/transport.go).*)
(*                                                                         *)
(* Upsert validates the configuration, connects a web client, resolves     *)
(* the repositories, flattens every Request (partitioning a timeseries     *)
(* request into chunks), starts runtime.NumCPU() repositoryWorker and      *)
(* webWorker goroutines, enqueues one webWorkerJob per flattened request   *)
(* and waits for one signal on the "done" channel per flattened request.   *)
(*                                                                         *)
(* The file also holds Request.newFetchConfig, Request.flatten and         *)
(* Request.flattenTimeseries; they are modelled as calls on the requests   *)
(* of a configuration.  timeseries.chunk, which they call, is not in the   *)
(* file: it fails or leaves any chunks in timeseries.chunks.               *)
(*                                                                         *)
(* Conventions.                                                            *)
(*   - A Go pointer or an optional map entry is a sequence of length 0     *)
(*     (nil / absent) or 1 (the value pointed to).                         *)
(*   - A time.Time is an integer number of seconds.  A time string of the  *)
(*     query is [ok, t]: ok says whether time.Parse accepts it under the   *)
(*     layout, t is the instant it denotes.                                *)
(*   - web.Fetch, repository.UpsertJSON, storage.New and web.NewClient are *)
(*     not part of the package: each call succeeds or fails                *)
(*     nondeterministically.                                               *)
(*   - logrus' Logger.Fatal and a goroutine panic both end the process:    *)
(*     "exited" becomes a reason and nothing moves any more.               *)
(*   - The base URL (Config.URL) carries no path and no query string of    *)
(*     its own, Config.Logger is set, and a Request passed to              *)
(*     Request.flattenTimeseries has its RateLimitConfig set.              *)
(***************************************************************************)
EXTENDS Integers, Sequences, FiniteSets

\* ------------------------------------------------------------------ bounds
\* Largest number of entries of Config.Requests the flattening is explored on.
MaxRequests == 2
\* Largest number of flattened requests of a run of the worker pools.
MaxJobs == 2
\* Largest number of entries of Config.DNSList (storage targets).
MaxRepos == 2
\* Largest instant a start/end query parameter denotes.
MaxTime == 3
\* Largest timeseries.Period.
MaxPeriod == 2
\* Largest value of runtime.NumCPU(), the size of each worker pool.
MaxCPU == 2
\* The chunk loop of a period <= 0 never ends; the model stops it after more
\* chunks than any period > 0 yields.
MaxChunks == MaxTime + 1

\* ----------------------------------------------------------------- helpers
Nil == << >>
Ptr(x) == << x >>
IsNil(p) == Len(p) = 0
Deref(p) == p[1]

Last(s) == s[Len(s)]

RECURSIVE SeqSum(_)
SeqSum(s) == IF s = << >> THEN 0 ELSE Head(s) + SeqSum(Tail(s))

\* -------------------------------------------------------- time conversions
\* time.Parse(layout, value): the instant of a well-formed time string.
ParseOK(str) == str.ok
Parse(str) == str.t
\* Time.Format(layout): the time string of an instant.
Format(t) == [ok |-> TRUE, t |-> t]

\* ------------------------------------------------------------ configuration
\* Request.Query without any entry (also what a nil map reads as).
NoQuery == [start |-> Nil, end |-> Nil, granularity |-> Nil]

\* A Request that is not a timeseries.
PlainRequest(endpoint, table, gran) ==
    [Endpoint |-> endpoint, Query |-> [NoQuery EXCEPT !.granularity = gran],
     Timeseries |-> Nil, Table |-> table]

\* A Request with a timeseries of the given period whose query holds the
\* start and end time strings s and e (Nil: the parameter is absent).
TimeseriesRequest(endpoint, table, gran, s, e, p) ==
    [Endpoint |-> endpoint,
     Query |-> [start |-> s, end |-> e, granularity |-> gran],
     Timeseries |-> Ptr([Period |-> p]), Table |-> table]

CoinbaseHost == "api.exchange.coinbase.com"
OtherHost == "api.example.com"
CandleEndpoint == << "products", "BTC-USD", "candles" >>

\* The rate limit configurations: absent, a field absent, or both set.
RateLimitConfigs ==
    { Nil,
      Ptr([Burst |-> Nil, Period |-> Ptr(1)]),
      Ptr([Burst |-> Ptr(1), Period |-> Nil]),
      Ptr([Burst |-> Ptr(1), Period |-> Ptr(1)]),
      Ptr([Burst |-> Ptr(0), Period |-> Ptr(0)]) }

\* n requests without a timeseries.
PlainRequests(n) == [i \in 1..n |-> PlainRequest(<< "accounts" >>, Nil, Nil)]

\* A timeseries request of n chunks: the range [0, n) in periods of 1.
ChunkedRequest(endpoint, table, gran, n) ==
    TimeseriesRequest(endpoint, table, gran, Ptr(Format(0)), Ptr(Format(n)), 1)

\* The lists of requests of the runs of the worker pools: up to MaxJobs
\* requests without a timeseries; a timeseries of up to MaxJobs chunks, alone
\* and after a request without one; and a timeseries whose end is missing.
PoolRequests ==
    { PlainRequests(n) : n \in 0..MaxJobs }
    \cup { << ChunkedRequest(<< "accounts" >>, Nil, Nil, n) >> : n \in 1..MaxJobs }
    \cup { PlainRequests(1) \o << ChunkedRequest(<< "accounts" >>, Nil, Nil, n) >> :
             n \in 1..(MaxJobs - 1) }
    \cup { << TimeseriesRequest(<< "accounts" >>, Nil, Nil, Ptr(Format(0)), Nil, 1) >> }

\* The lists with a timeseries whose start is not before its end, alone and
\* after a request without a timeseries.
EmptyRangeRequests ==
    { pre \o << TimeseriesRequest(<< "accounts" >>, Nil, Nil,
                                  Ptr(Format(se[1])), Ptr(Format(se[2])), p) >> :
        pre \in { PlainRequests(0), PlainRequests(1) },
        se \in { x \in (0..MaxTime) \X (0..MaxTime) : x[1] >= x[2] },
        p \in (-1)..MaxPeriod }

\* The lists of one request that differ in the table and the encoding callback.
TableRequests ==
    { << PlainRequest(CandleEndpoint, Nil, Ptr("60")) >>,
      << PlainRequest(CandleEndpoint, Nil, Nil) >>,
      << PlainRequest(<< "candles" >>, Nil, Ptr("300")) >>,
      << PlainRequest(<< "accounts" >>, Ptr("candles"), Ptr("300")) >>,
      << PlainRequest(CandleEndpoint, Ptr("my_candles"), Ptr("60")) >>,
      << ChunkedRequest(CandleEndpoint, Nil, Ptr("60"), 2) >> }

\* The time strings a start or end parameter can hold: absent, one that
\* does not parse, or an instant.
TimeStrings ==
    { Nil, Ptr([ok |-> FALSE, t |-> 0]) } \cup { Ptr(Format(t)) : t \in 0..MaxTime }

\* The requests the flattening is explored on: every start, end and period.
ChunkRequests ==
    { TimeseriesRequest(<< "accounts" >>, Nil, Nil, s, e, p) :
        s \in TimeStrings, e \in TimeStrings, p \in (-1)..MaxPeriod }

Config(host, dns, reqs) ==
    [URL |-> [ok |-> TRUE, Host |-> host], APIKey |-> TRUE, DNSList |-> dns,
     Requests |-> reqs, RateLimitConfig |-> Ptr([Burst |-> Ptr(1), Period |-> Ptr(1)])]

\* The configurations of the runs of the worker pools.
PoolConfigs ==
    { Config(CoinbaseHost, n, reqs) :
        n \in 0..MaxRepos, reqs \in PoolRequests \cup EmptyRangeRequests \cup TableRequests }
    \cup { Config(OtherHost, n, reqs) : n \in 0..MaxRepos, reqs \in TableRequests }

\* The configurations that differ in what Upsert checks before it flattens.
SetupConfigs ==
    { [URL |-> [ok |-> u, Host |-> CoinbaseHost], APIKey |-> k, DNSList |-> 1,
       Requests |-> << PlainRequest(<< "accounts" >>, Nil, Nil) >>,
       RateLimitConfig |-> rl] :
        u \in BOOLEAN, k \in BOOLEAN, rl \in RateLimitConfigs }

\* The configurations the flattening is explored on.
ChunkConfigs ==
    { Config(CoinbaseHost, 1, pre \o << r >>) :
        pre \in { PlainRequests(n) : n \in 0..(MaxRequests - 1) }, r \in ChunkRequests }

\* The requests Request.flattenTimeseries is explored on: without a
\* timeseries, or with one whose query holds both bounds.
FlattenableRequests ==
    { PlainRequest(<< "accounts" >>, Nil, Nil) }
    \cup { TimeseriesRequest(<< "accounts" >>, Nil, Nil, Ptr(Format(0)), Ptr(Format(e)), p) :
             e \in 0..MaxTime, p \in 1..MaxPeriod }

\* The configurations Request.flattenTimeseries is explored on.
RequestConfigs ==
    { Config(CoinbaseHost, 1, reqs) :
        reqs \in UNION { [1..n -> FlattenableRequests] : n \in 0..MaxRequests } }

\* -------------------------------------------------------------------- state
VARIABLES
    cfg,                \* the Config Upsert runs on (its Requests are shared pointers)
    cfg0,               \* the Config as the caller passed it (never written)
    numCPU,             \* what runtime.NumCPU() returns
    ctxDone,            \* the caller's context has been cancelled
    pc,                 \* where Upsert stands
    ret,                \* what Upsert returned
    client,             \* the web client of connect
    repos,              \* the number of repositories resolved
    rateLimiter,        \* the rate limiter created at line 339 (0: none yet)
    ri,                 \* index of the request the flattening loop is at
    start,              \* the chunk loop's start
    end,                \* the chunk loop's end
    chunks,             \* the chunks gathered by the chunk loop
    ci,                 \* index of the chunk the inner flattening loop is at
    flattenedRequests,  \* the flattened requests
    webWorkerJobs,      \* the buffered channel of web worker jobs
    ei,                 \* index of the flattened request to enqueue next
    a,                  \* the drain loop's counter
    done,               \* the number of signals buffered in repoWorkerCfg.done
    web,                \* the web workers
    repo,               \* the repository workers
    exited,             \* why the process ended ("" while it runs)
    fetched,            \* per flattened request: the calls of web.Fetch
    handed,             \* per flattened request: the jobs sent on repoJobCh
    upserted,           \* per flattened request and repository: the payloads upserted
    signalled           \* per flattened request: the signals sent on done

upsertVars == << pc, ret, client, repos, rateLimiter, ri, start, end, chunks, ci,
                 flattenedRequests, ei, a >>
poolVars == << webWorkerJobs, done, web, repo, fetched, handed, upserted, signalled >>
vars == << cfg, cfg0, numCPU, ctxDone, upsertVars, poolVars, exited >>

Workers == 1..MaxCPU

\* A worker that was not started, or holds no job.
NoJob == 0

\* The state in which the configuration is one of configs and the program
\* stands at "at".
InitAt(configs, at) ==
    /\ cfg \in configs
    /\ cfg0 = cfg
    /\ numCPU \in 1..MaxCPU
    /\ ctxDone = FALSE
    /\ pc = at
    /\ ret = ""
    /\ client = Nil
    /\ repos = 0
    /\ rateLimiter = 0
    /\ ri = 1
    /\ start = 0
    /\ end = 0
    /\ chunks = << >>
    /\ ci = 1
    /\ flattenedRequests = << >>
    /\ webWorkerJobs = << >>
    /\ ei = 1
    /\ a = 1
    /\ done = 0
    /\ web = [w \in Workers |-> [pc |-> "off", job |-> NoJob, b |-> ""]]
    /\ repo = [w \in Workers |-> [pc |-> "off", job |-> NoJob, b |-> "", table |-> "",
                                   callback |-> "", i |-> 1]]
    /\ exited = ""
    /\ fetched = << >>
    /\ handed = << >>
    /\ upserted = << >>
    /\ signalled = << >>

\* The state in which Upsert is called.
InitOf(configs) == InitAt(configs, "validate")

Init == InitOf(PoolConfigs \cup SetupConfigs)

Running == exited = ""

\* Upsert returns err.
Return(err) ==
    /\ pc' = "returned"
    /\ ret' = err

\* ----------------------------------------------------------------- validate
\* A validation that does not look at Period.
RateLimitConfig_validate_burstOnly(rl) ==
    IF IsNil(rl.Burst) THEN "Burst is a required field" ELSE ""

\* RateLimitConfig.validate: the first required field that is missing.
RateLimitConfig_validate(rl) ==
    IF IsNil(rl.Burst) THEN "Burst is a required field"
    ELSE IF IsNil(rl.Period) THEN "Period is a required field"
    ELSE ""

\* Config.validate.
Config_validate(c) ==
    IF IsNil(c.RateLimitConfig) THEN "RateLimitConfig is a required field"
    ELSE RateLimitConfig_validate(Deref(c.RateLimitConfig))

\* Upsert, lines 319-321.
Validate ==
    /\ Running /\ pc = "validate"
    /\ IF Config_validate(cfg) # ""
       THEN /\ Return(Config_validate(cfg))
       ELSE /\ pc' = "connect"
            /\ ret' = ret
    /\ UNCHANGED << cfg, cfg0, numCPU, ctxDone, client, repos, rateLimiter, ri, start, end, chunks, ci,
                    flattenedRequests, ei, a, poolVars, exited >>

\* Upsert, lines 322-326, with Config.connect: without an API key connect
\* returns a nil client and no error; web.NewClient may fail.
Connect ==
    /\ Running /\ pc = "connect"
    /\ \/ /\ cfg.APIKey
          /\ \/ /\ client' = Ptr("client")
                /\ pc' = "repositories"
                /\ ret' = ret
             \/ /\ client' = client
                /\ Return("unable to connect to client")
       \/ /\ ~cfg.APIKey
          /\ client' = Nil
          /\ pc' = "repositories"
          /\ ret' = ret
    /\ UNCHANGED << cfg, cfg0, numCPU, ctxDone, repos, rateLimiter, ri, start, end, chunks, ci,
                    flattenedRequests, ei, a, poolVars, exited >>

\* Upsert, lines 329-339, with Config.repositories: storage.New may fail for
\* an entry of the DNS list; then the rate limiter of the run is created.
Repositories ==
    /\ Running /\ pc = "repositories"
    /\ \/ /\ repos' = cfg.DNSList
          /\ rateLimiter' = 1
          /\ pc' = "flatten"
          /\ ret' = ret
       \/ /\ cfg.DNSList > 0
          /\ UNCHANGED << repos, rateLimiter >>
          /\ Return("error building repositories for transport config")
    /\ UNCHANGED << cfg, cfg0, numCPU, ctxDone, client, ri, start, end, chunks, ci,
                    flattenedRequests, ei, a, poolVars, exited >>

\* ------------------------------------------------------------------ flatten
\* newFetchConfig fails when the base URL cannot be joined or parsed.
newFetchConfig_err(c) == ~c.URL.ok

\* newFetchConfig: the URL is the base URL joined with the endpoint, with the
\* request's query parameters set on it.
newFetchConfig(c, req, cl, rl) ==
    [Client |-> cl,
     URL |-> [Host |-> c.URL.Host, Path |-> req.Endpoint, Query |-> req.Query],
     RateLimiter |-> rl]

\* timeseries.chunks, lines 58-77: the error of reading the range, "" if none.
chunks_err(url) ==
    IF Len(url.Query.start) # 1 THEN "'startName' is required for timeseries data"
    ELSE IF ~ParseOK(Deref(url.Query.start)) THEN "parsing time: start"
    ELSE IF Len(url.Query.end) # 1 THEN "'endName' is required for timeseries data"
    ELSE IF ~ParseOK(Deref(url.Query.end)) THEN "parsing time: end"
    ELSE ""

\* A loop that also runs when start equals end.
chunking_inclusive(s, e) == s <= e

\* timeseries.chunks, line 79: the loop runs while start.Before(end).
chunking(s, e) == s < e

\* A chunk that is not cut at the end of the range.
chunkOf_uncut(s, e, period) == << s, s + period >>

\* timeseries.chunks, lines 80-85: the chunk one iteration of the loop appends.
chunkOf(s, e, period) ==
    LET next == s + period
    IN  IF next < e THEN << s, next >> ELSE << s, e >>

\* A next iteration that starts one second after the chunk's end.
nextStart_gap(s, period) == s + period + 1

\* timeseries.chunks, line 86: the start of the next iteration.
nextStart(s, period) == s + period

\* A flattenedRequest.
flattenedRequest(fetchConfig, table) == [fetchConfig |-> fetchConfig, table |-> table]

\* Upsert, lines 343-353 and 371-377: the head of the loop over cfg.Requests.
\* A request without a timeseries is flattened as it is; for a timeseries the
\* range is read and the chunk loop entered.
FlattenRequest ==
    /\ Running /\ pc = "flatten"
    /\ IF ri > Len(cfg.Requests)
       THEN /\ pc' = "startRepoWorkers"
            /\ UNCHANGED << ret, ri, start, end, chunks, flattenedRequests >>
       ELSE LET req == cfg.Requests[ri]
                fetchConfig == newFetchConfig(cfg, req, client, rateLimiter)
            IN  IF newFetchConfig_err(cfg)
                THEN /\ Return("error joining url")
                     /\ UNCHANGED << ri, start, end, chunks, flattenedRequests >>
                ELSE IF IsNil(req.Timeseries)
                THEN /\ flattenedRequests' =
                            Append(flattenedRequests, flattenedRequest(fetchConfig, req.Table))
                     /\ ri' = ri + 1
                     /\ UNCHANGED << pc, ret, start, end, chunks >>
                ELSE IF chunks_err(fetchConfig.URL) # ""
                THEN /\ Return("error getting timeseries chunks")
                     /\ UNCHANGED << ri, start, end, chunks, flattenedRequests >>
                ELSE /\ pc' = "chunks"
                     /\ start' = Parse(Deref(fetchConfig.URL.Query.start))
                     /\ end' = Parse(Deref(fetchConfig.URL.Query.end))
                     /\ chunks' = << >>
                     /\ UNCHANGED << ret, ri, flattenedRequests >>
    /\ UNCHANGED << cfg, cfg0, numCPU, ctxDone, client, repos, rateLimiter, ci, ei, a, poolVars, exited >>

\* timeseries.chunks, lines 79-88: one iteration of the loop, or its exit.
ChunkLoop ==
    /\ Running /\ pc = "chunks"
    /\ LET period == Deref(cfg.Requests[ri].Timeseries).Period
       IN  IF chunking(start, end)
           THEN /\ Len(chunks) < MaxChunks
                /\ chunks' = Append(chunks, chunkOf(start, end, period))
                /\ start' = nextStart(start, period)
                /\ UNCHANGED << pc, ci >>
           ELSE /\ pc' = "chunkRequests"
                /\ ci' = 1
                /\ UNCHANGED << start, chunks >>
    /\ UNCHANGED << cfg, cfg0, numCPU, ctxDone, ret, client, repos, rateLimiter, ri, end,
                    flattenedRequests, ei, a, poolVars, exited >>

\* Upsert, line 357-359: chunkReq is the pointer req, so the request of the
\* configuration itself gets the chunk's bounds.
chunkReq(req, chunk) ==
    [req EXCEPT !.Query.start = Ptr(Format(chunk[1])),
                !.Query.end = Ptr(Format(chunk[2]))]

\* Upsert, lines 355-370: one iteration of the loop over the chunks, or its exit.
ChunkRequest ==
    /\ Running /\ pc = "chunkRequests"
    /\ IF ci <= Len(chunks)
       THEN LET req == chunkReq(cfg.Requests[ri], chunks[ci])
            IN  /\ cfg' = [cfg EXCEPT !.Requests[ri] = req]
                /\ IF newFetchConfig_err(cfg)
                   THEN /\ Return("error joining url")
                        /\ UNCHANGED << ci, flattenedRequests >>
                   ELSE /\ flattenedRequests' =
                               Append(flattenedRequests,
                                      flattenedRequest(newFetchConfig(cfg, req, client, rateLimiter),
                                                       req.Table))
                        /\ ci' = ci + 1
                        /\ UNCHANGED << pc, ret >>
                /\ ri' = ri
       ELSE /\ ri' = ri + 1
            /\ pc' = "flatten"
            /\ UNCHANGED << cfg, cfg0, numCPU, ret, ci, flattenedRequests >>
    /\ UNCHANGED << cfg0, numCPU, ctxDone, client, repos, rateLimiter, start, end, chunks, ei, a,
                    poolVars, exited >>

\* ------------------------------------------- Request.flattenTimeseries
\* url.Values.Set for every entry of the request's query, lines 469-476 and
\* 523-530.
setQuery(query, params) ==
    [k \in DOMAIN query |-> IF IsNil(params[k]) THEN query[k] ELSE params[k]]

\* Request.newFetchConfig, lines 465-489: the endpoint is joined to the path
\* of the URL, the query parameters are set on it, and the rate limiter is
\* the one rate.NewLimiter returns at line 481, rl, a new one at every call.
Request_newFetchConfig(req, rurl, cl, rl) ==
    [Client |-> cl,
     URL |-> [Host |-> rurl.Host, Path |-> rurl.Path \o req.Endpoint,
              Query |-> setQuery(rurl.Query, req.Query)],
     RateLimiter |-> rl]

\* Request.flatten, lines 500-507.
Request_flatten(req, rurl, cl, rl) ==
    flattenedRequest(Request_newFetchConfig(req, rurl, cl, rl), req.Table)

\* What timeseries.chunk can leave in timeseries.chunks: up to MaxJobs chunks.
TimeseriesChunks == { [i \in 1..n |-> << i - 1, i >>] : n \in 0..MaxJobs }

\* Request.flattenTimeseries, lines 512-551, called on the requests of the
\* configuration in turn with the base URL.  timeseries.chunk fails or leaves
\* some chunks in timeseries.chunks; chunkReq is the pointer req, as in Upsert.
\* rateLimiter counts the rate limiters built so far.
Request_flattenTimeseries ==
    /\ Running /\ pc = "flattenTimeseries"
    /\ ri <= Len(cfg.Requests)
    /\ LET req == cfg.Requests[ri]
           rurl == [Host |-> cfg.URL.Host, Path |-> << >>, Query |-> NoQuery]
       IN  IF IsNil(req.Timeseries)
           THEN /\ flattenedRequests' =
                       Append(flattenedRequests, Request_flatten(req, rurl, client, rateLimiter + 1))
                /\ rateLimiter' = rateLimiter + 1
                /\ ri' = ri + 1
                /\ UNCHANGED << cfg, pc, ret, chunks >>
           ELSE \/ /\ Return("failed to set time series chunks")
                   /\ UNCHANGED << cfg, rateLimiter, ri, chunks, flattenedRequests >>
                \/ \E cs \in TimeseriesChunks :
                      LET xurl == [rurl EXCEPT !.Query = setQuery(rurl.Query, req.Query)]
                      IN  /\ chunks' = cs
                          /\ flattenedRequests' =
                                 flattenedRequests \o
                                 [i \in 1..Len(cs) |->
                                    Request_flatten(chunkReq(req, cs[i]), xurl, client,
                                                    rateLimiter + i)]
                          /\ rateLimiter' = rateLimiter + Len(cs)
                          /\ cfg' = IF cs = << >> THEN cfg
                                    ELSE [cfg EXCEPT !.Requests[ri] = chunkReq(req, Last(cs))]
                          /\ ri' = ri + 1
                          /\ UNCHANGED << pc, ret >>
    /\ UNCHANGED << cfg0, numCPU, ctxDone, client, repos, start, end, ci, ei, a,
                    poolVars, exited >>

\* ------------------------------------------------------------- worker pools
Jobs == 1..Len(flattenedRequests)

\* Upsert, lines 379-390: the repository workers start.
StartRepoWorkers ==
    /\ Running /\ pc = "startRepoWorkers"
    /\ repo' = [w \in Workers |-> IF w <= numCPU THEN [repo[w] EXCEPT !.pc = "recv"] ELSE repo[w]]
    /\ fetched' = [j \in Jobs |-> 0]
    /\ handed' = [j \in Jobs |-> 0]
    /\ upserted' = [j \in Jobs |-> [r \in 1..repos |-> << >>]]
    /\ signalled' = [j \in Jobs |-> 0]
    /\ pc' = "startWebWorkers"
    /\ UNCHANGED << cfg, cfg0, numCPU, ctxDone, ret, client, repos, rateLimiter, ri, start, end, chunks, ci,
                    flattenedRequests, ei, a, webWorkerJobs, done, web, exited >>

\* Upsert, lines 392-398: the web workers start.
StartWebWorkers ==
    /\ Running /\ pc = "startWebWorkers"
    /\ web' = [w \in Workers |-> IF w <= numCPU THEN [web[w] EXCEPT !.pc = "recv"] ELSE web[w]]
    /\ pc' = "enqueue"
    /\ UNCHANGED << cfg, cfg0, numCPU, ctxDone, ret, client, repos, rateLimiter, ri, start, end, chunks, ci,
                    flattenedRequests, ei, a, webWorkerJobs, done, repo, exited,
                    fetched, handed, upserted, signalled >>

\* make(chan *webWorkerJob, len(cfg.Requests)), line 392.
webWorkerJobsCap == Len(cfg.Requests)

\* A done channel with room for one signal less.
doneCap_short == Len(flattenedRequests) - 1

\* make(chan bool, len(flattenedRequests)), line 382.
doneCap == Len(flattenedRequests)

\* A drain loop that stops one signal early, and one that waits for one more.
expected_short == Len(flattenedRequests) - 1
expected_long == Len(flattenedRequests) + 1

\* The number of signals Upsert waits for, line 413.
expected == Len(flattenedRequests)

\* A job that carries the first flattened request whatever the index.
webWorkerJob_first(i) == 1

\* Upsert, lines 401-403: the job sent for the flattened request at index i
\* carries that flattened request.
webWorkerJob(i) == i

\* Upsert, lines 401-410: one send on webWorkerJobs, which blocks while the
\* channel is full, or the loop's exit.
Enqueue ==
    /\ Running /\ pc = "enqueue"
    /\ IF ei <= Len(flattenedRequests)
       THEN /\ Len(webWorkerJobs) < webWorkerJobsCap
            /\ webWorkerJobs' = Append(webWorkerJobs, webWorkerJob(ei))
            /\ ei' = ei + 1
            /\ UNCHANGED << pc, a >>
       ELSE /\ pc' = "drain"
            /\ a' = 1
            /\ UNCHANGED << webWorkerJobs, ei >>
    /\ UNCHANGED << cfg, cfg0, numCPU, ctxDone, ret, client, repos, rateLimiter, ri, start, end, chunks, ci,
                    flattenedRequests, done, web, repo, exited, fetched, handed, upserted, signalled >>

\* Upsert, lines 413-418: one receive from done, which blocks while the
\* channel is empty, or the loop's exit and the return of nil.
Drain ==
    /\ Running /\ pc = "drain"
    /\ IF a <= expected
       THEN /\ done > 0
            /\ done' = done - 1
            /\ a' = a + 1
            /\ UNCHANGED << pc, ret >>
       ELSE /\ Return("nil")
            /\ UNCHANGED << done, a >>
    /\ UNCHANGED << cfg, cfg0, numCPU, ctxDone, client, repos, rateLimiter, ri, start, end, chunks, ci,
                    flattenedRequests, webWorkerJobs, ei, web, repo, exited,
                    fetched, handed, upserted, signalled >>

\* The caller cancels ctx while Upsert enqueues or drains.  Upsert never
\* reads ctx; web.Fetch and UpsertJSON get it, and fail or not as they do.
Cancel ==
    /\ Running /\ pc \in {"enqueue", "drain"}
    /\ ~ctxDone
    /\ ctxDone' = TRUE
    /\ UNCHANGED << cfg, cfg0, numCPU, upsertVars, poolVars, exited >>

\* The payload web.Fetch returns.  Whether it decodes into candles is
\* settled when it is first decoded: "bytes" has not been decoded yet,
\* "candle bytes" has been, with success.
Fetched == "bytes"
Decoded == "candle bytes"

\* webWorker, line 307: a worker receives the next job of the channel.
WebReceive(w) ==
    /\ Running /\ web[w].pc = "recv"
    /\ webWorkerJobs # << >>
    /\ web' = [web EXCEPT ![w] = [pc |-> "fetch", job |-> Head(webWorkerJobs), b |-> ""]]
    /\ webWorkerJobs' = Tail(webWorkerJobs)
    /\ UNCHANGED << cfg, cfg0, numCPU, ctxDone, upsertVars, done, repo, exited, fetched, handed, upserted, signalled >>

\* webWorker, lines 308-311: web.Fetch returns a payload, or an error, on
\* which logger.Fatal ends the process.
WebFetch(w) ==
    /\ Running /\ web[w].pc = "fetch"
    /\ fetched' = [fetched EXCEPT ![web[w].job] = @ + 1]
    /\ \/ /\ web' = [web EXCEPT ![w] = [pc |-> "send", job |-> web[w].job, b |-> Fetched]]
          /\ exited' = exited
       \/ /\ exited' = "fetch error: logger.Fatal"
          /\ web' = web
    /\ UNCHANGED << cfg, cfg0, numCPU, ctxDone, upsertVars, webWorkerJobs, done, repo, handed,
                    upserted, signalled >>

\* webWorker, line 312, with repositoryWorker, line 234: repoJobCh has no
\* buffer, so the send of web worker w and the receive of repository worker r
\* happen together.
WebSend(w, r) ==
    /\ Running /\ web[w].pc = "send" /\ repo[r].pc = "recv"
    /\ repo' = [repo EXCEPT ![r].pc = "resolve", ![r].job = web[w].job, ![r].b = web[w].b]
    /\ web' = [web EXCEPT ![w] = [pc |-> "recv", job |-> NoJob, b |-> ""]]
    /\ handed' = [handed EXCEPT ![web[w].job] = @ + 1]
    /\ UNCHANGED << cfg, cfg0, numCPU, ctxDone, upsertVars, webWorkerJobs, done, exited,
                    fetched, upserted, signalled >>

\* strings.Contains(job.url.Host, "coinbase.com"), line 250.
IsCoinbase(host) == host \in {CoinbaseHost}

\* A table that is the first part of the path.
tableName_first(endpointParts, jobTable) ==
    IF IsNil(jobTable) THEN Head(endpointParts) ELSE Deref(jobTable)

\* repositoryWorker, lines 240-243: the last part of the path, or the table
\* of the job if it has one.
tableName(endpointParts, jobTable) ==
    IF IsNil(jobTable) THEN Last(endpointParts) ELSE Deref(jobTable)

\* repositoryWorker, lines 237-273: the table of a job and the encoding
\* callback chosen for it.  panic is the runtime error the lines end in, if
\* any: the granularity parameter is indexed without a check (line 251) and
\* so is the second part of the path (line 257).  callback "nil" is the
\* callback left unset for candles of a host that is not coinbase.
resolve(url, jobTable) ==
    LET endpointParts == url.Path
        table == tableName(endpointParts, jobTable)
    IN  IF table = "candles"
        THEN IF IsCoinbase(url.Host)
             THEN IF IsNil(url.Query.granularity)
                  THEN [table |-> table, callback |-> "nil",
                        panic |-> "index out of range: granularity"]
                  ELSE IF Len(endpointParts) < 2
                  THEN [table |-> table, callback |-> "nil",
                        panic |-> "index out of range: endpointParts"]
                  ELSE [table |-> IF Deref(url.Query.granularity) = "60"
                                  THEN "candle_minutes" ELSE table,
                        callback |-> "candles", panic |-> ""]
             ELSE [table |-> table, callback |-> "nil", panic |-> ""]
        ELSE [table |-> table, callback |-> "identity", panic |-> ""]

\* The encoding callbacks, lines 258-272, as the set of what a call can
\* return: the default returns the payload as it is; the candle callback
\* decodes it, sets the product of every candle and encodes it again, and
\* fails on a payload that does not decode.  b is the payload after the call
\* (known to decode once it has).
encodingCallback(callback, b) ==
    IF callback = "identity" THEN { [err |-> FALSE, bytes |-> b, b |-> b] }
    ELSE { [err |-> FALSE, bytes |-> "candles with product", b |-> Decoded] }
         \cup { [err |-> TRUE, bytes |-> "", b |-> b] : x \in IF b = Fetched THEN {1} ELSE {} }

\* repositoryWorker, lines 237-273.
RepoResolve(r) ==
    /\ Running /\ repo[r].pc = "resolve"
    /\ LET fr == flattenedRequests[repo[r].job]
           res == resolve(fr.fetchConfig.URL, fr.table)
       IN  IF res.panic # ""
           THEN /\ exited' = "panic: " \o res.panic
                /\ repo' = repo
           ELSE /\ repo' = [repo EXCEPT ![r].pc = "upsert", ![r].table = res.table,
                                        ![r].callback = res.callback, ![r].i = 1]
                /\ exited' = exited
    /\ UNCHANGED << cfg, cfg0, numCPU, ctxDone, upsertVars, webWorkerJobs, done, web,
                    fetched, handed, upserted, signalled >>

\* A worker that leaves its loop after a job.
repoIdle_exited == [pc |-> "off", job |-> NoJob, b |-> "", table |-> "", callback |-> "", i |-> 1]

\* The worker is back at the head of its loop, line 234.
repoIdle == [pc |-> "recv", job |-> NoJob, b |-> "", table |-> "", callback |-> "", i |-> 1]

\* A loop over cfg.repositories that leaves out the last one.
ranging_short(i) == i < repos

\* repositoryWorker, line 275: the loop over cfg.repositories is at one of them.
ranging(i) == i <= repos

\* repositoryWorker, lines 275-288: one iteration of the loop over the
\* repositories (the payload is encoded and upserted; logger.Fatal ends the
\* process on either error, and calling the unset callback panics), or, the
\* loop over, the signal on done.
RepoUpsert(r) ==
    /\ Running /\ repo[r].pc = "upsert"
    /\ LET j == repo[r].job
           i == repo[r].i
       IN  IF ranging(i)
           THEN /\ IF repo[r].callback = "nil"
                   THEN /\ exited' = "panic: nil encodingCallback"
                        /\ UNCHANGED << repo, upserted >>
                   ELSE \E enc \in encodingCallback(repo[r].callback, repo[r].b) :
                        IF enc.err
                        THEN /\ exited' = "encoding error: logger.Fatal"
                             /\ UNCHANGED << repo, upserted >>
                        ELSE \/ /\ upserted' = [upserted EXCEPT ![j][i] =
                                                   Append(@, [table |-> repo[r].table,
                                                              bytes |-> enc.bytes])]
                                /\ repo' = [repo EXCEPT ![r].i = i + 1, ![r].b = enc.b]
                                /\ exited' = exited
                             \/ /\ exited' = "upsert error: logger.Fatal"
                                /\ UNCHANGED << repo, upserted >>
                /\ UNCHANGED << done, signalled >>
           ELSE /\ done < doneCap
                /\ done' = done + 1
                /\ signalled' = [signalled EXCEPT ![j] = @ + 1]
                /\ repo' = [repo EXCEPT ![r] = repoIdle]
                /\ UNCHANGED << exited, upserted >>
    /\ UNCHANGED << cfg, cfg0, numCPU, ctxDone, upsertVars, webWorkerJobs, web, fetched, handed >>

\* ------------------------------------------------------------ specification
\* Upsert up to the start of the workers.
NextFlatten ==
    \/ Validate
    \/ Connect
    \/ Repositories
    \/ FlattenRequest
    \/ ChunkLoop
    \/ ChunkRequest

Next ==
    \/ NextFlatten
    \/ StartRepoWorkers
    \/ StartWebWorkers
    \/ Enqueue
    \/ Drain
    \/ Cancel
    \/ \E w \in Workers : WebReceive(w)
    \/ \E w \in Workers : WebFetch(w)
    \/ \E w \in Workers : \E r \in Workers : WebSend(w, r)
    \/ \E r \in Workers : RepoResolve(r)
    \/ \E r \in Workers : RepoUpsert(r)

\* Upsert and its worker pools.
Spec == Init /\ [][Next]_vars

\* The Go scheduler runs every goroutine that can take a step.
Fairness ==
    /\ WF_vars(NextFlatten \/ StartRepoWorkers \/ StartWebWorkers \/ Enqueue \/ Drain)
    /\ \A w \in Workers : WF_vars(WebReceive(w) \/ WebFetch(w) \/ \E r \in Workers : WebSend(w, r))
    /\ \A r \in Workers : WF_vars(RepoResolve(r) \/ RepoUpsert(r))

FairSpec == Spec /\ Fairness

\* The flattening alone, on every start, end and period.
InitFlatten == InitOf(ChunkConfigs \cup SetupConfigs)

SpecFlatten == InitFlatten /\ [][NextFlatten]_vars

\* Request.flattenTimeseries on the requests of a configuration.
NextRequest == Request_flattenTimeseries

InitRequest == InitAt(RequestConfigs, "flattenTimeseries")

SpecRequest == InitRequest /\ [][NextRequest]_vars

\* ------------------------------------------------------------------- claims
Succeeded == pc = "returned" /\ ret = "nil"

\* The flattened requests the workers were started on.
Started == DOMAIN fetched

\* The places flattened request j is at: a slot of the job queue, a web
\* worker, a repository worker.
Holders(j) ==
    { << "queue", k >> : k \in { k \in 1..Len(webWorkerJobs) : webWorkerJobs[k] = j } }
    \cup { << "web", w >> : w \in { w \in Workers : web[w].job = j } }
    \cup { << "repo", r >> : r \in { r \in Workers : repo[r].job = j } }

Fetches == SeqSum([j \in Started |-> fetched[j]])
Signals == SeqSum([j \in Started |-> signalled[j]])
UpsertsOf(j) == SeqSum([r \in 1..repos |-> Len(upserted[j][r])])
Upserts == SeqSum([j \in Started |-> UpsertsOf(j)])

\* C1: whenever Upsert has returned nil, every flattened request has been
\* fetched, its payload has been upserted into every repository of the DNS
\* list, and no job is left in the queue or in the hands of a worker.
C1_ReturnsAfterAllUpserts ==
    Succeeded =>
        /\ Started = 1..Len(flattenedRequests)
        /\ \A j \in Started :
              /\ fetched[j] >= 1
              /\ \A r \in 1..cfg0.DNSList : Len(upserted[j][r]) >= 1
              /\ Holders(j) = {}

C1_Witness ==
    Succeeded /\ Len(flattenedRequests) = MaxJobs /\ cfg0.DNSList = MaxRepos

\* C2: under fair scheduling, once the flattening is over and the workers are
\* about to start, Upsert eventually returns nil unless a failed fetch,
\* encoding or upsert has ended the process: no blocked send or receive
\* lasts for ever and no job is lost.
C2_EventuallyReturns ==
    (pc = "startRepoWorkers") ~> (Succeeded \/ ~Running)

\* A web worker waits to hand its payload over while every repository worker
\* is busy and Upsert waits for signals.
C2_Witness ==
    /\ Running /\ pc = "drain"
    /\ \E w \in Workers : web[w].pc = "send"
    /\ \A r \in 1..numCPU : repo[r].pc = "upsert"

\* C3: once the context is cancelled, Upsert sends no further job, waits for
\* no further signal, and what it returns is the context's error.
C3_CancelStopsUpsert ==
    [][ctxDone => /\ ei' = ei
                  /\ a' = a
                  /\ (pc' = "returned" => ret' = "context canceled")]_vars

\* C4: a failed fetch does not end the process.
C4_FetchFailureKeepsProcess ==
    exited # "fetch error: logger.Fatal"

\* C5: a failed upsert or a failed encoding of the payload does not end the
\* process.
C5_UpsertFailureKeepsProcess ==
    exited \notin {"upsert error: logger.Fatal", "encoding error: logger.Fatal"}

\* The repository workers are done with flattened request j.
Processed(j) ==
    fetched[j] >= 1 /\ Holders(j) = {}

\* C6: at most one signal is sent per job; a signal sent means the job's
\* payload is in every repository; no signal is sent while a repository worker
\* still holds the job; and a job the workers are done with has its signal.
C6_OneSignalAfterAllUpserts ==
    \A j \in Started :
        /\ signalled[j] <= 1
        /\ signalled[j] = 1 => \A r \in 1..cfg0.DNSList : Len(upserted[j][r]) = 1
        /\ (\E r \in Workers : repo[r].job = j) => signalled[j] = 0
        /\ Processed(j) => signalled[j] = 1

C6_Witness ==
    /\ cfg0.DNSList = 2
    /\ \E j \in Started : signalled[j] = 1
    /\ \E r \in Workers : repo[r].pc = "upsert" /\ repo[r].i = 2

\* C7: a flattened request is at one place at a time, is fetched at most
\* once, signalled at most once and upserted at most once per repository; and
\* when Upsert has returned nil the run has made one fetch and one signal per
\* flattened request and one upsert per flattened request and repository.
C7_ExactlyOnce ==
    /\ \A j \in Started :
          /\ Cardinality(Holders(j)) <= 1
          /\ fetched[j] <= 1
          /\ signalled[j] <= 1
          /\ \A r \in 1..repos : Len(upserted[j][r]) <= 1
    /\ Succeeded =>
          /\ Fetches = Len(flattenedRequests)
          /\ Signals = Len(flattenedRequests)
          /\ Upserts = Len(flattenedRequests) * cfg0.DNSList

C7_Witness ==
    Succeeded /\ Len(flattenedRequests) = 2 /\ cfg0.DNSList = 2 /\ Upserts = 4

\* The range and period of the timeseries request the flattening is at, as
\* the caller passed them.
Range(req) == << Parse(Deref(req.Query.start)), Parse(Deref(req.Query.end)) >>
Period(req) == Deref(req.Timeseries).Period
HasRange(req) ==
    /\ ~IsNil(req.Timeseries)
    /\ ~IsNil(req.Query.start) /\ ParseOK(Deref(req.Query.start))
    /\ ~IsNil(req.Query.end) /\ ParseOK(Deref(req.Query.end))

\* cs is ordered and tiles [s, e) in chunks of period p, the last one cut.
Tiles(cs, s, e, p) ==
    /\ Len(cs) >= 1
    /\ cs[1][1] = s
    /\ cs[Len(cs)][2] = e
    /\ \A i \in 1..Len(cs) : cs[i][1] < cs[i][2] /\ cs[i][2] - cs[i][1] <= p
    /\ \A i \in 1..(Len(cs) - 1) : cs[i][2] = cs[i + 1][1] /\ cs[i][2] - cs[i][1] = p

\* C8: when the chunk loop of a request with start s < end e and period
\* p > 0 has ended, its chunks are ordered and tile [s, e): the first starts
\* at s, each ends where the next starts, the last ends at e, none is longer
\* than p and all but the last are exactly p long.
C8_ChunksTile ==
    (pc = "chunkRequests" /\ Range(cfg0.Requests[ri])[1] < Range(cfg0.Requests[ri])[2]
                          /\ Period(cfg0.Requests[ri]) > 0)
        => Tiles(chunks, Range(cfg0.Requests[ri])[1], Range(cfg0.Requests[ri])[2],
                 Period(cfg0.Requests[ri]))

\* A range that ends in a chunk shorter than the period.
C8_Witness ==
    /\ pc = "chunkRequests" /\ Len(chunks) >= 2
    /\ Period(cfg0.Requests[ri]) > 0
    /\ Last(chunks)[2] - Last(chunks)[1] < Period(cfg0.Requests[ri])

\* Request i is a timeseries whose start is not before its end.
EmptyRange(i) ==
    /\ i <= Len(cfg0.Requests)
    /\ HasRange(cfg0.Requests[i])
    /\ Range(cfg0.Requests[i])[1] >= Range(cfg0.Requests[i])[2]

\* C9: while Upsert flattens a timeseries request whose start is not before
\* its end, no step yields a chunk or a flattened request, none returns an
\* error or ends the process, and the flattening goes on.
C9_EmptyRangeNoWork ==
    [][(pc \in {"flatten", "chunks", "chunkRequests"} /\ EmptyRange(ri))
          => /\ chunks' = << >>
             /\ flattenedRequests' = flattenedRequests
             /\ pc' \in {"chunks", "chunkRequests", "flatten"}
             /\ ret' = "" /\ exited' = ""]_vars

\* Upsert returned nil on a single request of an empty range, without a
\* flattened request or a fetch.
C9_Witness ==
    /\ Succeeded
    /\ Len(cfg0.Requests) = 1 /\ EmptyRange(1)
    /\ Range(cfg0.Requests[1])[1] > Range(cfg0.Requests[1])[2]
    /\ flattenedRequests = << >> /\ fetched = << >>

\* Request req has no timeseries, or a range of full periods.
FullPeriods(req) ==
    \/ IsNil(req.Timeseries)
    \/ /\ HasRange(req)
       /\ Period(req) > 0
       /\ Range(req)[1] <= Range(req)[2]
       /\ (Range(req)[2] - Range(req)[1]) % Period(req) = 0

\* The k of a range of k full periods; 1 without a timeseries.
PeriodsOf(req) ==
    IF IsNil(req.Timeseries) THEN 1
    ELSE (Range(req)[2] - Range(req)[1]) \div Period(req)

\* C10: at the head of the loop over the requests, and when the loop is over,
\* the requests flattened so far, each without a timeseries or with a range
\* of k full periods, have yielded 1 or k flattened requests each; and the
\* number of signals Upsert waits for is the number of flattened requests.
C10_FlattenedCount ==
    (pc \in {"flatten", "startRepoWorkers"}
        /\ \A i \in 1..(ri - 1) : FullPeriods(cfg0.Requests[i]))
        => /\ Len(flattenedRequests) = SeqSum([i \in 1..(ri - 1) |-> PeriodsOf(cfg0.Requests[i])])
           /\ expected = Len(flattenedRequests)
           /\ doneCap = Len(flattenedRequests)

\* A request without a timeseries and a timeseries of two or more periods.
C10_Witness ==
    /\ pc = "startRepoWorkers"
    /\ Len(cfg0.Requests) = 2
    /\ IsNil(cfg0.Requests[1].Timeseries)
    /\ FullPeriods(cfg0.Requests[2]) /\ ~IsNil(cfg0.Requests[2].Timeseries)
    /\ PeriodsOf(cfg0.Requests[2]) >= 2
    /\ Len(flattenedRequests) = 1 + PeriodsOf(cfg0.Requests[2])

\* C11: flattening never writes to a request of the configuration: at every
\* point of the run every Request, its query with the start and end values
\* included, is what the caller passed.
C11_FlatteningKeepsRequests ==
    cfg.Requests = cfg0.Requests

\* C12: all the flattened requests hold the same rate limiter, and a run
\* builds no more than one.
C12_OneRateLimiter ==
    /\ rateLimiter <= 1
    /\ \A i, j \in 1..Len(flattenedRequests) :
          flattenedRequests[i].fetchConfig.RateLimiter = flattenedRequests[j].fetchConfig.RateLimiter

\* The errors of Config.validate.
ValidationErrors ==
    { "RateLimitConfig is a required field", "Burst is a required field",
      "Period is a required field" }

\* Upsert has done nothing but validate, and if it has returned it is with a
\* validation error: no client, no repository, no rate limiter, no flattened
\* request, no worker started, no fetch and no upsert.
Rejected ==
    /\ pc \in {"validate", "returned"}
    /\ pc = "returned" => ret \in ValidationErrors
    /\ client = Nil /\ repos = 0 /\ rateLimiter = 0
    /\ flattenedRequests = << >>
    /\ \A w \in Workers : web[w].pc = "off" /\ repo[w].pc = "off"
    /\ fetched = << >> /\ upserted = << >>
    /\ Running

\* The rate limit configuration is absent, or its burst or its period is.
Incomplete(c) ==
    \/ IsNil(c.RateLimitConfig)
    \/ IsNil(Deref(c.RateLimitConfig).Burst)
    \/ IsNil(Deref(c.RateLimitConfig).Period)

\* C13: a run whose rate limit configuration is absent, or lacks the burst
\* or the period, never gets past the validation: Upsert returns a validation
\* error without a client connection, a repository, a worker, a fetch or an
\* upsert.
C13_MissingRateLimitRejected ==
    Incomplete(cfg0) => Rejected

\* Upsert returned the error of a rate limit configuration without a period.
C13_Witness ==
    /\ ~IsNil(cfg0.RateLimitConfig) /\ IsNil(Deref(cfg0.RateLimitConfig).Period)
    /\ pc = "returned" /\ ret = "Period is a required field"

\* The rate limit configuration has a burst and a period, one of them not
\* positive.
NonPositive(c) ==
    /\ ~Incomplete(c)
    /\ \/ Deref(Deref(c.RateLimitConfig).Burst) <= 0
       \/ Deref(Deref(c.RateLimitConfig).Period) <= 0

\* C14: a run whose burst or period is not positive never gets past the
\* validation: Upsert returns a validation error before any connection.
C14_NonPositiveRateLimitRejected ==
    NonPositive(cfg0) => Rejected

\* C15: Upsert gets past connect only with a client: without one it has
\* returned a validation or a connection error, or not yet connected, and has
\* flattened nothing, started no worker and fetched nothing.
C15_NoClientNoRun ==
    client = Nil =>
        /\ pc \in {"validate", "connect", "returned"}
        /\ pc = "returned" => ret \in ValidationErrors \cup {"unable to connect to client"}
        /\ flattenedRequests = << >>
        /\ \A w \in Workers : web[w].pc = "off" /\ repo[w].pc = "off"
        /\ fetched = << >>

\* The table the claim gives flattened request fr: the last part of the path
\* of its URL, or its explicit table.
DefaultTable(fr) ==
    IF IsNil(fr.table) THEN fr.fetchConfig.URL.Path[Len(fr.fetchConfig.URL.Path)]
    ELSE Deref(fr.table)

\* Flattened request fr has the candle transform: its table is "candles" and
\* its host is coinbase.
HasTransform(fr) ==
    DefaultTable(fr) = "candles" /\ IsCoinbase(fr.fetchConfig.URL.Host)

\* The table of fr once candles of granularity 60 are renamed.
ResolvedTable(fr) ==
    IF HasTransform(fr) /\ fr.fetchConfig.URL.Query.granularity = Ptr("60")
    THEN "candle_minutes"
    ELSE DefaultTable(fr)

\* The tables of the upserts made for flattened request j, and of those a
\* repository worker that holds j is about to make.
TablesOf(j) ==
    UNION { { upserted[j][r][k].table : k \in 1..Len(upserted[j][r]) } : r \in 1..repos }
    \cup { repo[r].table : r \in { w \in Workers : repo[w].pc = "upsert" /\ repo[w].job = j } }

\* C16, as stated: the table of every upsert is the last part of the path of
\* the job's URL, or the explicit table of the request whatever the URL.
C16_TableIsDefaultOrExplicit ==
    \A j \in Started : TablesOf(j) \subseteq { DefaultTable(flattenedRequests[j]) }

\* C16, amended: the table of every upsert is the last part of the path of
\* the job's URL, or the explicit table of the request, except that for a
\* coinbase host the table "candles" of a job of granularity 60 is
\* "candle_minutes".
C16_TableResolved ==
    \A j \in Started : TablesOf(j) \subseteq { ResolvedTable(flattenedRequests[j]) }

\* Candles of granularity 60 without an explicit table have been upserted
\* into "candle_minutes".
C16_Witness ==
    \E j \in Started : \E r \in 1..repos :
        /\ Len(upserted[j][r]) = 1
        /\ upserted[j][r][1].table = "candle_minutes"
        /\ IsNil(flattenedRequests[j].table)

\* C17: a job without a transform (any host and table but coinbase with
\* "candles") is upserted as it was fetched: its encoding callback is the
\* one that returns the payload, no call of a callback that was never set
\* ends the process, and every payload upserted for it is the fetched one.
C17_NoTransformPassesThrough ==
    /\ exited # "panic: nil encodingCallback"
    /\ \A r \in Workers :
          (repo[r].pc = "upsert" /\ ~HasTransform(flattenedRequests[repo[r].job]))
              => repo[r].callback = "identity"
    /\ \A j \in Started : \A r \in 1..repos : \A k \in 1..Len(upserted[j][r]) :
          ~HasTransform(flattenedRequests[j]) => upserted[j][r][k].bytes = Fetched

\* The most iterations the chunk loop of request req may make: none for an
\* empty range, the range divided by the period, rounded up, for a period
\* > 0, and one per second of the range whatever the period.
IterationBound(req) ==
    LET s == Range(req)[1]
        e == Range(req)[2]
        p == Period(req)
    IN  IF e <= s THEN 0
        ELSE IF p > 0 THEN (e - s + p - 1) \div p
        ELSE e - s

\* C18: for every start, end and period the chunk loop makes no more
\* iterations than the range divided by the period allows.
C18_ChunkLoopBounded ==
    pc \in {"chunks", "chunkRequests"} => Len(chunks) <= IterationBound(cfg0.Requests[ri])

HandOffs == SeqSum([j \in Started |-> handed[j]])

\* A repository worker is at its send on done, line 288.
Signalling(r) == repo[r].pc = "upsert" /\ ~ranging(repo[r].i)

\* C19: signals sent <= jobs handed to the repository workers <= fetches
\* returned <= jobs enqueued <= signals Upsert waits for; the done channel
\* never holds more than its capacity and is not full when a repository
\* worker is at its send.
C19_SignalsNeverBlock ==
    /\ Signals <= HandOffs
    /\ HandOffs <= Fetches
    /\ Fetches <= ei - 1
    /\ ei - 1 <= expected
    /\ done <= doneCap
    /\ \A r \in Workers : Signalling(r) => done < doneCap

\* A repository worker is at its send while a signal waits in the channel.
C19_Witness ==
    /\ doneCap = MaxJobs /\ done = doneCap - 1 /\ done >= 1
    /\ \E r \in Workers : Signalling(r)

\* C20: when Upsert has returned nil, the job channel is empty, no web
\* worker waits to hand a job over, and every worker that was started is at
\* the receive of its loop; no worker has left its loop.
C20_WorkersStayBlocked ==
    Succeeded =>
        /\ Running
        /\ webWorkerJobs = << >>
        /\ \A w \in 1..numCPU : web[w] = [pc |-> "recv", job |-> NoJob, b |-> ""]
        /\ \A r \in 1..numCPU : repo[r] = repoIdle

\* Upsert returned nil on MaxJobs flattened requests with pools of MaxCPU workers.
C20_Witness ==
    /\ Succeeded /\ numCPU = MaxCPU
    /\ Len(flattenedRequests) = MaxJobs /\ cfg0.DNSList >= 1

====
